---- MODULE Spec2Model ----
(***************************************************************************)
(* Model of the resilient HTTP executor of go-drift:                       *)
(*   src/drift/resilient_client.go  (ResilientClient.Do and its helpers).  *)
(* One Do call is modelled as a sequential process (pc) that interleaves   *)
(* with the environment: the caller's context may be cancelled at any      *)
(* point, the wrapped transport answers each call with any outcome.        *)
(***************************************************************************)
EXTENDS Integers, Sequences, FiniteSets, TLC

\* ------------------------------------------------------------------ bounds
\* largest configured retry count explored (WithRetryCount), apart from
\* the largest int
MaxRetries == 2
\* retryCount, maxAttempts and attempt are Go ints (64 bits): the model
\* keeps the two's-complement wrap of + and - at a reduced size of IntBits
\* bits
IntBits == 3
\* how far below zero the configured retry count is explored
MaxNegRetries == 1
\* longest request body explored, in bytes
MaxBodyLen == 1
\* status codes handed to the classifier range over -MaxStatusCode..MaxStatusCode
MaxStatusCode == 700
\* largest retry count of the client shared by two goroutines
MaxConcRetries == 2
\* time.Duration is an int64 and the backoff computes in float64 (53-bit
\* significand); the model keeps the two's-complement wrap and the rounding
\* to a fixed number of significant bits at a reduced size: durations have
\* DurationBits bits, floats MantissaBits significant bits and a smallest
\* step of 2^-FractionBits.
DurationBits == 5
MantissaBits == 2
FractionBits == 1
\* largest attempt index handed to ExponentialBackoff.Next
MaxNextAttempt == 4
\* how far below zero the attempt index is explored
MaxNegAttempt == 1

\* ------------------------------------------------------------ value spaces
RECURSIVE Pow2(_)
Pow2(n) == IF n <= 0 THEN 1 ELSE 2 * Pow2(n - 1)

\* int: the largest and the smallest value, and the wrap-around of + and -.
MaxInt == Pow2(IntBits - 1) - 1
MinInt == 0 - Pow2(IntBits - 1)
WrapInt(x) == ((x + Pow2(IntBits - 1)) % Pow2(IntBits)) - Pow2(IntBits - 1)

\* The retry counts a client is configured with: the small ones, negative
\* ones, and the largest int.
RetryCounts == ((0 - MaxNegRetries)..MaxRetries) \cup {MaxInt}

\* The bytes of a request body of length n: byte i has value i, so that a
\* prefix, a suffix and the whole are all different values.
BodyOf(n) == [i \in 1..n |-> i]
Bodies == {BodyOf(n) : n \in 0..MaxBodyLen}

\* An error value, by what errors.Is / errors.As can find in its chain.
\*   nil     : the nil error
\*   src     : who produced the value ("ctx": ctx.Err() itself,
\*             "transport": returned by client.Do, "GetBody": by req.GetBody)
\*   ctx     : errors.Is(err, context.Canceled / context.DeadlineExceeded)
\*   timeout : errors.As(err, &net.Error) and netErr.Timeout()
\*   errno   : errors.Is(err, syscall.ECONNREFUSED / ECONNRESET)
\*   eof     : errors.Is(err, io.EOF / io.ErrUnexpectedEOF)
\*   dns     : errors.As(err, &*net.DNSError), and its Temporary()
MkErr(src, ctx, timeout, errno, eof, dns) ==
    [nil |-> FALSE, src |-> src, ctx |-> ctx, timeout |-> timeout,
     errno |-> errno, eof |-> eof, dns |-> dns]

NilErr ==
    [nil |-> TRUE, src |-> "none", ctx |-> "none", timeout |-> FALSE,
     errno |-> "none", eof |-> "none", dns |-> "none"]

\* Variant of CtxError: a done context is always reported as cancelled.
CtxErrorAlwaysCanceled(c) ==
    MkErr("ctx", "Canceled", FALSE, "none", "none", "none")

\* ctx.Err() of a done context. context.DeadlineExceeded reports Timeout().
CtxError(c) == MkErr("ctx", c, c = "DeadlineExceeded", "none", "none", "none")

\* The error req.GetBody returns when it fails (errGetBody in the tests).
ErrGetBody == MkErr("GetBody", "none", FALSE, "none", "none", "none")

\* The errors the transport answers with in the executor model: a
\* connection reset, the request context's cancellation or expired deadline
\* as the transport reports it (wrapped; the deadline error reports
\* Timeout()), a cancellation that also wraps a refused connection, an
\* expired deadline that also wraps a connection reset, a cancellation that
\* also wraps io.EOF, and an error of no known class.
ErrReset == MkErr("transport", "none", FALSE, "ECONNRESET", "none", "none")
ErrWrappedCancel == MkErr("transport", "Canceled", FALSE, "none", "none", "none")
ErrWrappedDeadline ==
    MkErr("transport", "DeadlineExceeded", TRUE, "none", "none", "none")
ErrCancelRefused ==
    MkErr("transport", "Canceled", FALSE, "ECONNREFUSED", "none", "none")
ErrDeadlineReset ==
    MkErr("transport", "DeadlineExceeded", TRUE, "ECONNRESET", "none", "none")
ErrCancelEOF == MkErr("transport", "Canceled", FALSE, "none", "EOF", "none")
ErrUnknown == MkErr("transport", "none", FALSE, "none", "none", "none")
TransportErrs ==
    {ErrReset, ErrWrappedCancel, ErrWrappedDeadline, ErrCancelRefused,
     ErrDeadlineReset, ErrCancelEOF, ErrUnknown}

\* Status codes the transport answers with in the executor model.
TransportStatuses == {200, 400, 503}

\* A response object. nil = TRUE stands for the nil *http.Response.
\* hasBody: resp.Body != nil; drained: the body was read to its end;
\* closed: resp.Body.Close() was called.
MkResp(status, hasBody) ==
    [nil |-> FALSE, status |-> status, hasBody |-> hasBody,
     drained |-> FALSE, closed |-> FALSE]

NoResp ==
    [nil |-> TRUE, status |-> 0, hasBody |-> FALSE,
     drained |-> FALSE, closed |-> FALSE]

TransportResps == {MkResp(s, b) : s \in TransportStatuses, b \in BOOLEAN}

\* What one client.Do call can answer: a response and a nil error, a nil
\* response and an error, or (a failed redirect check) a response together
\* with an error; never a nil response with a nil error.
TransportOutcomes ==
    {[resp |-> r, err |-> NilErr] : r \in TransportResps}
    \cup {[resp |-> NoResp, err |-> e] : e \in TransportErrs}
    \cup {[resp |-> MkResp(200, TRUE), err |-> e] :
            e \in {ErrReset, ErrUnknown}}

\* Every status code the classifier is tried on: negative, zero, the known
\* codes and codes beyond 599.
StatusCodes == (0 - MaxStatusCode)..MaxStatusCode

\* Every error value the classifier is tried on: nil and each combination
\* of what errors.Is / errors.As can report about an error.
AllErrs ==
    {NilErr} \cup
    {MkErr("transport", c, t, en, eo, d) :
        c \in {"none", "Canceled", "DeadlineExceeded"},
        t \in BOOLEAN,
        en \in {"none", "ECONNREFUSED", "ECONNRESET"},
        eo \in {"none", "EOF", "ErrUnexpectedEOF"},
        d \in {"none", "temporary", "permanent"}}

\* Arguments and results of a classifier call.
NoArg == [kind |-> "none", code |-> 0, err |-> NilErr]
StatusArg(code) == [kind |-> "status", code |-> code, err |-> NilErr]
ErrorArg(e) == [kind |-> "error", code |-> 0, err |-> e]
NoRes == [done |-> FALSE, val |-> FALSE]
Result(v) == [done |-> TRUE, val |-> v]

\* A Do call: its request, its context, its frame and what the transport
\* did for it. NoCall: there is no second call.
MkCall(gb, ct, bd, ce, ca, p, at, rs, cb, r, e, lr, le, rr, re, n, sn, hp, na, gc) ==
    [reqGetBody |-> gb, reqContent |-> ct, reqBody |-> bd,
     ctxErr |-> ce, cancelAt |-> ca, pc |-> p, attempt |-> at,
     reqToSend |-> rs, cloneBody |-> cb, resp |-> r, err |-> e,
     lastResp |-> lr, lastErr |-> le, retResp |-> rr, retErr |-> re,
     calls |-> n, seen |-> sn, heap |-> hp, nextArgs |-> na,
     getBodyCalls |-> gc]
NewCall(getBody, cerr) ==
    MkCall(getBody, << >>, << >>, cerr,
           [pc |-> IF cerr = "none" THEN "never" ELSE "before", calls |-> 0],
           "loop", 0, "none", << >>, 0, NilErr, 0, NilErr, 0, NilErr,
           0, << >>, << >>, << >>, << >>)
NoCall == NewCall(FALSE, "none")

\* Nothing to replay, nothing recorded.
NoScript == [outcomes |-> << >>, getBodyFailsAt |-> 0]
NoFirst == [calls |-> 0, resp |-> NoResp, err |-> NilErr]

VARIABLES
    \* --- ResilientClient (set by NewResilientClient, never written after)
    retryCount,   \* rc.retryCount
    hasBackoff,   \* rc.backoff != nil
    \* --- the caller's request
    reqGetBody,   \* req.GetBody != nil
    reqContent,   \* the bytes of the request body (what GetBody reproduces)
    reqBody,      \* unread rest of the stream req.Body of the original
    \* --- the request's context
    ctxErr,       \* req.Context().Err(): "none", "Canceled", "DeadlineExceeded"
    cancelAt,     \* when the context became done: Do's position and the
                  \* number of transport calls made by then
    \* --- Do's frame
    pc,           \* position of Do
    attempt,      \* loop variable
    reqToSend,    \* "none", "orig" (the caller's instance) or "clone"
    cloneBody,    \* unread rest of the clone's body stream
    resp,         \* resp of the current attempt: index into heap, 0 = nil
    err,          \* err of the current attempt
    lastResp,     \* index into heap, 0 = nil
    lastErr,
    retResp,      \* returned response: index into heap, 0 = nil
    retErr,       \* returned error
    \* --- the transport, as the tests observe it
    calls,        \* number of transport invocations (mockTransport.callCount)
    seen,         \* body bytes each invocation found (bodyCapturingTransport)
    heap,         \* heap[i]: outcome of call i; its response object is
                  \* mutated in place when the executor drains / closes it
    \* --- the backoff, as a test double observes it
    nextArgs,     \* the arguments of the calls of rc.backoff.Next, in order
    \* --- the request's GetBody, as a test double observes it
    getBodyCalls, \* the attempts for which req.GetBody was invoked, in order
    \* --- one call of a classifier function on its own
    fnArg,        \* the argument: a status code or an error value
    fnRes,        \* the result, once the function has returned
    \* --- two Do calls in a row against a transport stub that replays
    run,          \* 1: the first Do call, 2: the second
    script,       \* what the stub and GetBody replay in the second call
    first,        \* what the first call did: transport calls, final outcome
    \* --- two Do calls at the same time on one client
    cur,          \* the goroutine that is running: 0 (only one Do), 1 or 2
    other         \* the Do call of the goroutine that is not running

cfgVars  == <<retryCount, hasBackoff>>
reqVars  == <<reqGetBody, reqContent, reqBody>>
ctxVars  == <<ctxErr, cancelAt>>
sendVars == <<reqToSend, cloneBody>>
curVars  == <<resp, err>>
lastVars == <<lastResp, lastErr>>
retVars  == <<retResp, retErr>>
trVars   == <<calls, seen, heap>>
boVars   == <<nextArgs, getBodyCalls>>
fnVars   == <<fnArg, fnRes>>
doVars == <<retryCount, hasBackoff, reqGetBody, reqContent, reqBody, ctxErr,
            cancelAt, pc, attempt, reqToSend, cloneBody, resp, err, lastResp,
            lastErr, retResp, retErr, calls, seen, heap, nextArgs,
            getBodyCalls>>
replayVars == <<run, script, first>>
concVars == <<cur, other>>
vars == <<doVars, fnVars, replayVars, concVars>>

\* ------------------------------------------------------- retry classifier
\* Variant of isRetryableStatusCode: no upper end of the server-error range.
isRetryableStatusCodeNoUpperEnd(code) ==
    CASE code = 408 -> TRUE
      [] code = 429 -> TRUE
      [] OTHER      -> code >= 500

isRetryableStatusCode(code) ==
    CASE code = 408 -> TRUE
      [] code = 429 -> TRUE
      [] OTHER      -> code >= 500 /\ code <= 599

\* Variant of isRetryableError: only context.Canceled is recognised as the
\* caller's cancellation, context.DeadlineExceeded is not.
isRetryableErrorCanceledOnly(e) ==
    IF e.nil THEN FALSE
    ELSE IF e.ctx = "Canceled" THEN FALSE
    ELSE IF e.timeout THEN TRUE
    ELSE IF e.errno = "ECONNREFUSED" THEN TRUE
    ELSE IF e.errno = "ECONNRESET" THEN TRUE
    ELSE IF e.eof \in {"EOF", "ErrUnexpectedEOF"} THEN TRUE
    ELSE IF e.dns # "none" THEN e.dns = "temporary"
    ELSE FALSE

\* Variant of isRetryableError: an error of no known class is retried.
isRetryableErrorFailOpen(e) ==
    IF e.nil THEN FALSE
    ELSE IF e.ctx \in {"Canceled", "DeadlineExceeded"} THEN FALSE
    ELSE IF e.timeout THEN TRUE
    ELSE IF e.errno = "ECONNREFUSED" THEN TRUE
    ELSE IF e.errno = "ECONNRESET" THEN TRUE
    ELSE IF e.eof \in {"EOF", "ErrUnexpectedEOF"} THEN TRUE
    ELSE IF e.dns # "none" THEN e.dns = "temporary"
    ELSE TRUE

\* Variant of isRetryableError: the retryable classes are tested before
\* the caller's cancellation.
isRetryableErrorCancelLast(e) ==
    IF e.nil THEN FALSE
    ELSE IF e.timeout THEN TRUE
    ELSE IF e.errno = "ECONNREFUSED" THEN TRUE
    ELSE IF e.errno = "ECONNRESET" THEN TRUE
    ELSE IF e.eof \in {"EOF", "ErrUnexpectedEOF"} THEN TRUE
    ELSE IF e.ctx \in {"Canceled", "DeadlineExceeded"} THEN FALSE
    ELSE IF e.dns # "none" THEN e.dns = "temporary"
    ELSE FALSE

isRetryableError(e) ==
    IF e.nil THEN FALSE
    ELSE IF e.ctx \in {"Canceled", "DeadlineExceeded"} THEN FALSE
    ELSE IF e.timeout THEN TRUE
    ELSE IF e.errno = "ECONNREFUSED" THEN TRUE
    ELSE IF e.errno = "ECONNRESET" THEN TRUE
    ELSE IF e.eof \in {"EOF", "ErrUnexpectedEOF"} THEN TRUE
    ELSE IF e.dns # "none" THEN e.dns = "temporary"
    ELSE FALSE

\* Variant of shouldRetry: every transport error is retried.
shouldRetryAnyError(count, e, r) ==
    IF count <= 0 THEN FALSE
    ELSE IF ~e.nil THEN TRUE
    ELSE IF ~r.nil THEN isRetryableStatusCode(r.status)
    ELSE FALSE

\* Variant of shouldRetry: an attempt is retried when either classifier
\* says so.
shouldRetryEitherSays(count, e, r) ==
    IF count <= 0 THEN FALSE
    ELSE \/ ~e.nil /\ isRetryableError(e)
         \/ ~r.nil /\ isRetryableStatusCode(r.status)

\* rc.shouldRetry(err, resp); r is the response object (NoResp for nil).
shouldRetry(count, e, r) ==
    IF count <= 0 THEN FALSE
    ELSE IF ~e.nil THEN isRetryableError(e)
    ELSE IF ~r.nil THEN isRetryableStatusCode(r.status)
    ELSE FALSE

\* The arguments shouldRetry is tried on: every retry count, every error
\* value, no response or a response of one of these statuses.
ArgStatuses == {200, 400, 408, 429, 500, 503, 599, 600}
ShouldRetryArg(count, e, r) ==
    [kind |-> "shouldRetry", code |-> 0, err |-> e, count |-> count,
     resp |-> r]

\* The classifier functions called on their own, as the unit and fuzz tests
\* call them: no Do call is running.
ClassifierInit ==
    /\ fnArg \in {StatusArg(c) : c \in StatusCodes}
                 \cup {ErrorArg(e) : e \in AllErrs}
                 \cup {ShouldRetryArg(n, e, r) :
                         n \in RetryCounts, e \in AllErrs,
                         r \in {NoResp} \cup
                               {MkResp(c, TRUE) : c \in ArgStatuses}}
    /\ fnRes = NoRes
    /\ run = 1
    /\ script = NoScript
    /\ first = NoFirst
    /\ cur = 0
    /\ other = NoCall
    /\ retryCount = 0
    /\ hasBackoff = FALSE
    /\ reqGetBody = FALSE
    /\ reqContent = << >>
    /\ reqBody = << >>
    /\ ctxErr = "none"
    /\ cancelAt = [pc |-> "never", calls |-> 0]
    /\ pc = "idle"
    /\ attempt = 0
    /\ reqToSend = "none"
    /\ cloneBody = << >>
    /\ resp = 0
    /\ err = NilErr
    /\ lastResp = 0
    /\ lastErr = NilErr
    /\ retResp = 0
    /\ retErr = NilErr
    /\ calls = 0
    /\ seen = << >>
    /\ heap = << >>
    /\ nextArgs = << >>
    /\ getBodyCalls = << >>

CallIsRetryableStatusCode ==
    /\ fnArg.kind = "status"
    /\ ~fnRes.done
    /\ fnRes' = Result(isRetryableStatusCode(fnArg.code))
    /\ UNCHANGED <<fnArg, doVars, replayVars, concVars>>

CallIsRetryableError ==
    /\ fnArg.kind = "error"
    /\ ~fnRes.done
    /\ fnRes' = Result(isRetryableError(fnArg.err))
    /\ UNCHANGED <<fnArg, doVars, replayVars, concVars>>

CallShouldRetry ==
    /\ fnArg.kind = "shouldRetry"
    /\ ~fnRes.done
    /\ fnRes' = Result(shouldRetry(fnArg.count, fnArg.err, fnArg.resp))
    /\ UNCHANGED <<fnArg, doVars, replayVars, concVars>>

ClassifierNext ==
    \/ CallIsRetryableStatusCode
    \/ CallIsRetryableError
    \/ CallShouldRetry

ClassifierSpec == ClassifierInit /\ [][ClassifierNext]_vars

\* ------------------------------------------------------------- executor
\* Variant of maxAttempts: one attempt too many.
maxAttemptsOffByOne == WrapInt(2 + retryCount)

\* Line 58: 1 + rc.retryCount, an int addition.
maxAttempts == WrapInt(1 + retryCount)

\* The response object a pointer designates.
Deref(p) == IF p = 0 THEN NoResp ELSE heap[p].resp

\* `return r, e` of Do.
Return(r, e) ==
    /\ pc' = "done"
    /\ retResp' = r
    /\ retErr' = e

\* Variant of UsesClone: the first attempt is cloned too.
UsesCloneAlways(att, getBody) == att >= 0 /\ getBody

\* Variant of UsesClone: the original instance is sent again on a retry.
UsesCloneNever(att, getBody) == FALSE

\* prepareRequest: which instance goes to the transport on this attempt.
UsesClone(att, getBody) == att > 0 /\ getBody

\* Variant of DrainAndClose: the body is read to its end but left open.
DrainOnly(r) ==
    IF ~r.nil /\ r.hasBody THEN [r EXCEPT !.drained = TRUE] ELSE r

\* waitForRetry's first statement on the response object r.
DrainAndClose(r) ==
    IF ~r.nil /\ r.hasBody
    THEN [r EXCEPT !.drained = TRUE, !.closed = TRUE]
    ELSE r

Init ==
    /\ retryCount \in RetryCounts
    /\ hasBackoff \in BOOLEAN
    /\ reqGetBody \in BOOLEAN
    /\ reqContent \in Bodies
    /\ reqBody = reqContent
    /\ ctxErr \in {"none", "Canceled", "DeadlineExceeded"}
    /\ cancelAt = [pc |-> IF ctxErr = "none" THEN "never" ELSE "before",
                   calls |-> 0]
    /\ pc = "loop"
    /\ attempt = 0
    /\ reqToSend = "none"
    /\ cloneBody = << >>
    /\ resp = 0
    /\ err = NilErr
    /\ lastResp = 0
    /\ lastErr = NilErr
    /\ retResp = 0
    /\ retErr = NilErr
    /\ calls = 0
    /\ seen = << >>
    /\ heap = << >>
    /\ nextArgs = << >>
    /\ getBodyCalls = << >>
    /\ fnArg = NoArg
    /\ fnRes = NoRes
    /\ run = 1
    /\ script = NoScript
    /\ first = NoFirst
    /\ cur = 0
    /\ other = NoCall

\* Variant of LoopHead: no pre-attempt context check.
LoopHeadNoCheck ==
    /\ pc = "loop"
    /\ IF attempt < maxAttempts
       THEN /\ pc' = "prepare"
            /\ UNCHANGED retVars
       ELSE Return(lastResp, lastErr)
    /\ UNCHANGED <<fnVars, replayVars, concVars, boVars, cfgVars, reqVars, ctxVars, attempt, sendVars, curVars,
                   lastVars, trVars>>

\* Lines 60-63: the loop condition and the pre-attempt context check.
LoopHead ==
    /\ pc = "loop"
    /\ IF attempt < maxAttempts
       THEN IF ctxErr # "none"
            THEN Return(0, CtxError(ctxErr))
            ELSE /\ pc' = "prepare"
                 /\ UNCHANGED retVars
       ELSE Return(lastResp, lastErr)
    /\ UNCHANGED <<fnVars, replayVars, concVars, boVars, cfgVars, reqVars, ctxVars, attempt, sendVars, curVars,
                   lastVars, trVars>>

\* Lines 65-68, 92-97, 149-161: prepareRequest / cloneRequest. GetBody is the
\* caller's function: it answers a fresh stream over the body bytes, or fails.
PrepareRequest ==
    /\ pc = "prepare"
    /\ IF UsesClone(attempt, reqGetBody)
       THEN /\ getBodyCalls' = Append(getBodyCalls, attempt)
            /\ \E ok \in BOOLEAN :
                 IF ok
                 THEN /\ reqToSend' = "clone"
                      /\ cloneBody' = reqContent
                      /\ pc' = "send"
                      /\ UNCHANGED retVars
                 ELSE /\ Return(0, ErrGetBody)
                      /\ UNCHANGED sendVars
       ELSE /\ reqToSend' = "orig"
            /\ pc' = "send"
            /\ UNCHANGED <<cloneBody, retVars, getBodyCalls>>
    /\ UNCHANGED <<fnVars, replayVars, concVars, nextArgs, cfgVars, reqVars,
                   ctxVars, attempt, curVars, lastVars, trVars>>

\* Variant of Send: the transport is invoked a second time while the first
\* invocation has not returned.
SendTwice ==
    /\ pc = "send"
    /\ calls' = calls + 2
    /\ seen' = seen \o << IF reqToSend = "orig" THEN reqBody ELSE cloneBody,
                          IF reqToSend = "orig" THEN reqBody ELSE cloneBody >>
    /\ pc' = "inflight"
    /\ UNCHANGED <<fnVars, replayVars, concVars, boVars, cfgVars, reqVars, ctxVars, attempt, sendVars, curVars,
                   lastVars, retVars, heap>>

\* Line 70, entry: the transport is invoked with reqToSend and finds the
\* unread rest of that instance's body stream.
Send ==
    /\ pc = "send"
    /\ calls' = calls + 1
    /\ seen' = Append(seen, IF reqToSend = "orig" THEN reqBody ELSE cloneBody)
    /\ pc' = "inflight"
    /\ UNCHANGED <<fnVars, replayVars, concVars, boVars, cfgVars, reqVars, ctxVars, attempt, sendVars, curVars,
                   lastVars, retVars, heap>>

\* Line 70, return: the transport answers with any outcome, having read any
\* part of the body stream it was given.
TransportReturn ==
    /\ pc = "inflight"
    /\ \E o \in TransportOutcomes :
         /\ heap' = Append(heap, o)
         /\ resp' = IF o.resp.nil THEN 0 ELSE calls
         /\ err' = o.err
    /\ IF reqToSend = "orig"
       THEN /\ \E n \in 0..Len(reqBody) :
                 reqBody' = SubSeq(reqBody, n + 1, Len(reqBody))
            /\ UNCHANGED cloneBody
       ELSE \* the clone is dropped after the call: its stream is not kept
            /\ cloneBody' = << >>
            /\ UNCHANGED reqBody
    /\ pc' = "classify"
    /\ UNCHANGED <<fnVars, replayVars, concVars, boVars, cfgVars, reqGetBody, reqContent, ctxVars, attempt,
                   reqToSend, lastVars, retVars, calls, seen>>

\* Variant of Classify: the budget test comes before the bookkeeping, so an
\* exhausted budget returns the outcome recorded by the attempt before.
ClassifyStaleLast ==
    /\ pc = "classify"
    /\ IF ~shouldRetry(retryCount, err, Deref(resp))
       THEN /\ Return(resp, err)
            /\ UNCHANGED lastVars
       ELSE IF attempt >= WrapInt(maxAttempts - 1)
            THEN /\ Return(lastResp, lastErr)
                 /\ UNCHANGED lastVars
            ELSE /\ lastErr' = err
                 /\ lastResp' = resp
                 /\ pc' = "drain"
                 /\ UNCHANGED retVars
    /\ UNCHANGED <<fnVars, replayVars, concVars, boVars, cfgVars, reqVars, ctxVars, attempt, sendVars, curVars,
                   trVars>>

\* Variant of Classify: whether the outcome is retried does not follow
\* from the outcome.
ClassifyAnyDecision ==
    /\ pc = "classify"
    /\ \E retry \in BOOLEAN :
         IF ~retry
         THEN /\ Return(resp, err)
              /\ UNCHANGED lastVars
         ELSE /\ lastErr' = err
              /\ lastResp' = resp
              /\ IF attempt >= WrapInt(maxAttempts - 1)
                 THEN Return(resp, err)
                 ELSE /\ pc' = "drain"
                      /\ UNCHANGED retVars
    /\ UNCHANGED <<fnVars, replayVars, concVars, boVars, cfgVars, reqVars, ctxVars, attempt,
                   sendVars, curVars, trVars>>

\* Variant of Classify: the body of a retry-worthy response is drained and
\* closed before the budget test, so also on the last allowed attempt.
ClassifyDrainsFinal ==
    /\ pc = "classify"
    /\ IF ~shouldRetry(retryCount, err, Deref(resp))
       THEN /\ Return(resp, err)
            /\ UNCHANGED <<lastVars, heap>>
       ELSE /\ lastErr' = err
            /\ lastResp' = resp
            /\ heap' = IF resp = 0 THEN heap
                       ELSE [heap EXCEPT ![resp].resp = DrainAndClose(@)]
            /\ IF attempt >= WrapInt(maxAttempts - 1)
               THEN Return(resp, err)
               ELSE /\ pc' = "drain"
                    /\ UNCHANGED retVars
    /\ UNCHANGED <<fnVars, replayVars, concVars, boVars, cfgVars, reqVars,
                   ctxVars, attempt, sendVars, curVars, calls, seen>>

\* Variant of Classify: a retried attempt goes to the backoff with its
\* response body still open.
ClassifySkipsDrain ==
    /\ pc = "classify"
    /\ IF ~shouldRetry(retryCount, err, Deref(resp))
       THEN /\ Return(resp, err)
            /\ UNCHANGED lastVars
       ELSE /\ lastErr' = err
            /\ lastResp' = resp
            /\ IF attempt >= WrapInt(maxAttempts - 1)
               THEN Return(resp, err)
               ELSE /\ pc' = "backoff"
                    /\ UNCHANGED retVars
    /\ UNCHANGED <<fnVars, replayVars, concVars, boVars, cfgVars, reqVars,
                   ctxVars, attempt, sendVars, curVars, trVars>>

\* Lines 72-81: the retry decision, the bookkeeping and the budget test.
Classify ==
    /\ pc = "classify"
    /\ IF ~shouldRetry(retryCount, err, Deref(resp))
       THEN /\ Return(resp, err)
            /\ UNCHANGED lastVars
       ELSE /\ lastErr' = err
            /\ lastResp' = resp
            /\ IF attempt >= WrapInt(maxAttempts - 1)
               THEN Return(resp, err)
               ELSE /\ pc' = "drain"
                    /\ UNCHANGED retVars
    /\ UNCHANGED <<fnVars, replayVars, concVars, boVars, cfgVars, reqVars, ctxVars, attempt, sendVars, curVars,
                   trVars>>

\* Lines 101-104: waitForRetry drains and closes the response body.
Drain ==
    /\ pc = "drain"
    /\ heap' = IF resp = 0 THEN heap
               ELSE [heap EXCEPT ![resp].resp = DrainAndClose(@)]
    /\ pc' = "backoff"
    /\ UNCHANGED <<fnVars, replayVars, concVars, boVars, cfgVars, reqVars, ctxVars, attempt, sendVars, curVars,
                   lastVars, retVars, calls, seen>>

\* Variant of BackoffNext: the sleep is entered whether or not a backoff is
\* configured.
BackoffNextAlwaysSleeps ==
    /\ pc = "backoff"
    /\ pc' = "sleep"
    /\ nextArgs' = IF hasBackoff THEN Append(nextArgs, attempt) ELSE nextArgs
    /\ UNCHANGED <<fnVars, replayVars, concVars, cfgVars, reqVars, ctxVars,
                   getBodyCalls, attempt, sendVars, curVars, lastVars, retVars, trVars>>

\* Variant of BackoffNext: the backoff is handed the number of the retry
\* that follows, counted from one.
BackoffNextOneBased ==
    /\ pc = "backoff"
    /\ IF hasBackoff
       THEN /\ nextArgs' = Append(nextArgs, attempt + 1)
            /\ pc' = "sleep"
            /\ UNCHANGED attempt
       ELSE /\ pc' = "loop"
            /\ attempt' = attempt + 1
            /\ UNCHANGED nextArgs
    /\ UNCHANGED <<fnVars, replayVars, concVars, cfgVars, reqVars, ctxVars,
                   getBodyCalls, sendVars, curVars, lastVars, retVars, trVars>>

\* Lines 106-111: with a backoff, ask it for the delay of this attempt
\* (rc.backoff.Next(attempt)) and start the sleep; without one,
\* waitForRetry returns nil and the loop goes on.
BackoffNext ==
    /\ pc = "backoff"
    /\ IF hasBackoff
       THEN /\ nextArgs' = Append(nextArgs, attempt)
            /\ pc' = "sleep"
            /\ UNCHANGED attempt
       ELSE /\ pc' = "loop"
            /\ attempt' = attempt + 1
            /\ UNCHANGED nextArgs
    /\ UNCHANGED <<fnVars, replayVars, concVars, cfgVars, reqVars, ctxVars,
                   getBodyCalls, sendVars, curVars, lastVars, retVars, trVars>>

\* Lines 140-144: the select takes the timer branch.
SleepTimer ==
    /\ pc = "sleep"
    /\ pc' = "loop"
    /\ attempt' = attempt + 1
    /\ UNCHANGED <<fnVars, replayVars, concVars, boVars, cfgVars, reqVars, ctxVars, sendVars, curVars, lastVars,
                   retVars, trVars>>

\* Variant of SleepCancelled: an aborted wait returns the last outcome.
SleepCancelledReturnsLast ==
    /\ pc = "sleep"
    /\ ctxErr # "none"
    /\ Return(lastResp, lastErr)
    /\ UNCHANGED <<fnVars, replayVars, concVars, boVars, cfgVars, reqVars, ctxVars, attempt, sendVars, curVars,
                   lastVars, trVars>>

\* Variant of SleepCancelled: the wait is a plain sleep that does not
\* listen to the context.
SleepUninterruptible ==
    /\ pc = "sleep"
    /\ FALSE
    /\ UNCHANGED vars

\* Lines 140-142 and 83-85: the select takes the ctx.Done() branch.
SleepCancelled ==
    /\ pc = "sleep"
    /\ ctxErr # "none"
    /\ Return(0, CtxError(ctxErr))
    /\ UNCHANGED <<fnVars, replayVars, concVars, boVars, cfgVars, reqVars, ctxVars, attempt, sendVars, curVars,
                   lastVars, trVars>>

\* The environment: the caller cancels the context, or its deadline passes,
\* while Do runs.
Cancel ==
    /\ pc # "done"
    /\ ctxErr = "none"
    /\ ctxErr' \in {"Canceled", "DeadlineExceeded"}
    /\ cancelAt' = [pc |-> pc, calls |-> calls]
    /\ UNCHANGED <<fnVars, replayVars, concVars, boVars, cfgVars, reqVars, pc, attempt, sendVars, curVars,
                   lastVars, retVars, trVars>>

Next ==
    \/ LoopHead
    \/ PrepareRequest
    \/ Send
    \/ TransportReturn
    \/ Classify
    \/ Drain
    \/ BackoffNext
    \/ SleepTimer
    \/ SleepCancelled
    \/ Cancel

Spec == Init /\ [][Next]_vars

\* Do is a running goroutine: each of its steps is eventually taken. The
\* transport returns from every call. In sleep's select a ready ctx.Done()
\* is eventually taken; the timer is only required to fire while the
\* context is live (a cancelled wait need not see its timer fire).
\* Whether Do returns does not depend on the bytes of the request body:
\* the fair runs are those of requests without one.
FairInit == Init /\ reqContent = << >>

FairSpec ==
    /\ FairInit
    /\ [][Next]_vars
    /\ WF_vars(LoopHead)
    /\ WF_vars(PrepareRequest)
    /\ WF_vars(Send)
    /\ WF_vars(TransportReturn)
    /\ WF_vars(Classify)
    /\ WF_vars(Drain)
    /\ WF_vars(BackoffNext)
    /\ WF_vars(SleepCancelled)
    /\ WF_vars(SleepTimer /\ ctxErr = "none")

\* ------------------------------------------------------ backoff strategy
\* time.Duration: the largest and the smallest value, and the wrap-around
\* of + on it.
MaxDuration == Pow2(DurationBits - 1) - 1
MinDuration == 0 - Pow2(DurationBits - 1)
Wrap(x) ==
    ((x + Pow2(DurationBits - 1)) % Pow2(DurationBits)) - Pow2(DurationBits - 1)

\* float64 values >= 0: a finite value is k steps of 1/FloatUnit, and k has
\* at most MantissaBits significant bits; beyond MaxFloat lies +Inf.
FloatUnit == Pow2(FractionBits)
Fin(k) == [cls |-> "fin", k |-> k]
PosInf == [cls |-> "inf", k |-> 0]
NaN == [cls |-> "nan", k |-> 0]
MaxFloat ==
    (Pow2(MantissaBits) - 1) * Pow2(DurationBits + 1 + FractionBits - MantissaBits)

\* num/den rounded to an integer, ties to the even one.
RoundHalfEven(num, den) ==
    LET q == num \div den
        r == num % den
    IN  IF 2 * r < den THEN q
        ELSE IF 2 * r > den THEN q + 1
        ELSE IF q % 2 = 0 THEN q ELSE q + 1

\* num/den steps rounded to the nearest float (round to nearest, ties to
\* even significand), as a number of steps.
RECURSIVE RoundSteps(_, _)
RoundSteps(num, den) ==
    IF num < Pow2(MantissaBits) * den
    THEN RoundHalfEven(num, den)
    ELSE 2 * RoundSteps(num, 2 * den)

\* The float nearest to num/den steps; +Inf when that is beyond MaxFloat.
ToFloat(num, den) ==
    LET k == RoundSteps(num, den)
    IN  IF k > MaxFloat THEN PosInf ELSE Fin(k)

\* float64(d) for a duration d >= 0.
FloatOfDuration(d) == ToFloat(d * FloatUnit, 1)

\* a * b in float64.
FMul(a, b) ==
    IF a.cls = "nan" \/ b.cls = "nan" THEN NaN
    ELSE IF a.cls = "inf" \/ b.cls = "inf"
         THEN IF (a.cls = "fin" /\ a.k = 0) \/ (b.cls = "fin" /\ b.k = 0)
              THEN NaN
              ELSE PosInf
    ELSE ToFloat(a.k * b.k, FloatUnit)

\* a > b and a < b in float64 (false when either is NaN).
FGt(a, b) ==
    /\ a.cls # "nan"
    /\ b.cls # "nan"
    /\ \/ a.cls = "inf" /\ b.cls = "fin"
       \/ a.cls = "fin" /\ b.cls = "fin" /\ a.k > b.k
FLt(a, b) == FGt(b, a)

\* A float64 > 0 taken apart: m * 2^e with a significand m of exactly
\* MantissaBits bits.
Sig(m, e) == [m |-> m, e |-> e]

\* k * 2^e for a k > 0 of at most MantissaBits significant bits, with the
\* significand brought to its full width (exact).
RECURSIVE Normalize(_, _)
Normalize(k, e) ==
    IF k < Pow2(MantissaBits - 1) THEN Normalize(2 * k, e - 1)
    ELSE IF k >= Pow2(MantissaBits) THEN Normalize(k \div 2, e + 1)
    ELSE Sig(k, e)

\* math.Frexp(x) for a finite x > 0: x = frac * 2^exp with frac in
\* [1/2, 1).
Frexp(x) ==
    LET n == Normalize(x.k, 0)
    IN  [frac |-> Sig(n.m, 0 - MantissaBits),
         exp |-> n.e - FractionBits + MantissaBits]

\* a * b in float64 for two such values, whose exponents are far from the
\* ends of the range: the product rounded to MantissaBits bits, ties to
\* even.
SigMul(a, b) ==
    LET p == a.m * b.m
        shift == IF p >= Pow2(2 * MantissaBits - 1)
                 THEN MantissaBits
                 ELSE MantissaBits - 1
        q == RoundHalfEven(p, Pow2(shift))
    IN  IF q = Pow2(MantissaBits)
        THEN Sig(Pow2(MantissaBits - 1), a.e + b.e + shift + 1)
        ELSE Sig(q, a.e + b.e + shift)

\* The loop of math.Pow over the bits of the exponent i, lowest first:
\*     if i&1 == 1 { a1 *= x1; ae += xe }
\*     x1 *= x1; xe <<= 1
\*     if x1 < .5 { x1 += x1; xe-- }
\* Every multiplication rounds. (The loop's early exit for an xe beyond
\* 2^12 ends in the same overflow the remaining rounds would give.)
RECURSIVE PowLoop(_, _, _, _, _)
PowLoop(i, a1, ae, x1, xe) ==
    IF i = 0 THEN [a1 |-> a1, ae |-> ae]
    ELSE LET odd == i % 2 = 1
             sq == SigMul(x1, x1)
             small == sq.e < 0 - MantissaBits
         IN  PowLoop(i \div 2,
                     IF odd THEN SigMul(a1, x1) ELSE a1,
                     IF odd THEN ae + xe ELSE ae,
                     IF small THEN Sig(sq.m, sq.e + 1) ELSE sq,
                     IF small THEN 2 * xe - 1 ELSE 2 * xe)

\* math.Ldexp(a, exp): a * 2^exp, +Inf beyond the largest float, rounded
\* where the floats get no finer.
Ldexp(a, exp) ==
    LET e == a.e + exp + FractionBits
    IN  IF MantissaBits - 1 + e > DurationBits + FractionBits THEN PosInf
        ELSE IF e >= 0 THEN ToFloat(a.m * Pow2(e), 1)
        ELSE IF 0 - e > MantissaBits + 1 THEN Fin(0)
        ELSE ToFloat(a.m, Pow2(0 - e))

\* math.Pow(x, float64(n)) for x >= 0 (or NaN) and an integer n >= 0, as
\* the library computes it: 1 for y = 0 or x = 1, x for y = 1, then NaN, 0
\* and +Inf stay what they are, and a finite x is taken apart by Frexp,
\* multiplied up by repeated squaring and put together by Ldexp. The result
\* carries the rounding of every multiplication and need not be the float
\* nearest to the power.
FPow(x, n) ==
    LET y == ToFloat(n * FloatUnit, 1)
        yi == y.k \div FloatUnit
    IN  IF yi = 0 \/ x = Fin(FloatUnit) THEN Fin(FloatUnit)
        ELSE IF yi = 1 THEN x
        ELSE IF x.cls = "nan" THEN NaN
        ELSE IF x.cls = "inf" THEN PosInf
        ELSE IF x.k = 0 THEN Fin(0)
        ELSE LET f == Frexp(x)
                 r == PowLoop(yi, Sig(Pow2(MantissaBits - 1),
                                      1 - MantissaBits),
                              0, f.frac, f.exp)
             IN  Ldexp(r.a1, r.ae)

\* time.Duration(f): the fraction is cut off; a value the int64 cannot hold
\* converts to whatever the build's conversion instruction gives: the
\* smallest int64 on amd64, the nearest end of the range (0 for NaN) on
\* arm64.
Builds == {"amd64", "arm64"}
DurationOfFloat(f, build) ==
    IF f.cls = "fin" /\ f.k \div FloatUnit <= MaxDuration
    THEN f.k \div FloatUnit
    ELSE IF build = "amd64" THEN MinDuration
    ELSE IF f.cls = "nan" THEN 0
    ELSE MaxDuration

\* NewExponentialBackoff(initialTimeout, maxTimeout, exponentFactor, maxJitter)
NewExponentialBackoff(it, mt, ef, mj) ==
    [initialTimeout |-> it, maxTimeout |-> mt, exponentFactor |-> ef,
     maxJitter |-> mj]

\* What a call of Next ends with: a duration, or a panic.
Returned(d) == [panic |-> FALSE, val |-> d]
Panicked == [panic |-> TRUE, val |-> 0]

\* Lines 48-53 of Next: float64(initialTimeout) * math.Pow(exponentFactor,
\* float64(attempt)), a negative attempt counting as 0.
RawDelay(e, att) ==
    LET clamped == IF att < 0 THEN 0 ELSE att
    IN  FMul(FloatOfDuration(e.initialTimeout),
             FPow(e.exponentFactor, clamped))

\* The earlier Next (src/unnamed/part_000, lines 52-60): only a product
\* above the cap is clamped; a NaN product is converted as it is and a
\* negative conversion is returned.
BaseDelayUnhardened(e, att, build) ==
    LET raw == RawDelay(e, att)
        maxTimeoutFloat == FloatOfDuration(e.maxTimeout)
        baseDelay == IF FGt(raw, maxTimeoutFloat) THEN maxTimeoutFloat
                     ELSE raw
    IN  DurationOfFloat(baseDelay, build)

\* What Next returns, before the jitter, when the product is clamped:
\* float64(maxTimeout) converted back (lines 54-71).
CapValue(e, build) ==
    LET delay == DurationOfFloat(FloatOfDuration(e.maxTimeout), build)
    IN  IF delay < 0 THEN e.maxTimeout ELSE delay

\* Lines 52-71 of Next: the delay before the jitter is added.
BaseDelay(e, att, build) ==
    LET raw == RawDelay(e, att)
        maxTimeoutFloat == FloatOfDuration(e.maxTimeout)
        capped == IF raw.cls = "nan" \/ raw.cls = "inf"
                     \/ FGt(raw, maxTimeoutFloat)
                  THEN maxTimeoutFloat
                  ELSE raw
        baseDelay == IF FLt(capped, Fin(0)) THEN Fin(0) ELSE capped
        delay == DurationOfFloat(baseDelay, build)
    IN  IF delay < 0 THEN e.maxTimeout ELSE delay

\* The argument Next hands to rand.Int64N, which panics unless it is > 0.
JitterBound(e) == Wrap(e.maxJitter + 1)

\* ExponentialBackoff.Next(attempt) on the given build, r being the number
\* rand.Int64N draws.
ExpNext(e, att, build, r) ==
    IF e.maxJitter > 0
    THEN IF JitterBound(e) <= 0 THEN Panicked
         ELSE Returned(Wrap(BaseDelay(e, att, build) + r))
    ELSE Returned(BaseDelay(e, att, build))

\* The values the backoff is tried on. Durations: 0, 1, 3, the largest
\* power of two up to which every duration is a float, the first duration
\* the float conversion rounds down and the first it rounds up, the next
\* power of two, and half the largest duration, the largest but one and the
\* largest. Factors: the floats up to 2 and the largest float. Jitters:
\* off, smallest and largest.
Durations ==
    {0, 1, 3, Pow2(MantissaBits), Pow2(MantissaBits) + 1,
     Pow2(MantissaBits) + 3, Pow2(MantissaBits + 1),
     MaxDuration \div 2, MaxDuration - 1, MaxDuration}
Factors ==
    {Fin(k) : k \in {j \in 0..(2 * FloatUnit) : RoundSteps(j, 1) = j}}
    \cup {Fin(MaxFloat)}
Jitters == {0, 1, MaxDuration}
NextAttempts == (0 - MaxNegAttempt)..MaxNextAttempt
NextArg(e, att, build) ==
    [kind |-> "next", code |-> att, err |-> NilErr, backoff |-> e,
     build |-> build, prev |-> NoRes]

\* Next called on a backoff on its own, as the unit and fuzz tests call
\* it: no Do call is running. fnArg.prev is what the call before this one,
\* with the attempt one less, ended with.
BackoffInit ==
    /\ fnArg \in {NextArg(NewExponentialBackoff(it, mt, ef, mj), att, b) :
                     it \in Durations, mt \in Durations, ef \in Factors,
                     mj \in Jitters, att \in NextAttempts, b \in Builds}
    /\ fnRes = NoRes
    /\ retryCount = 0
    /\ hasBackoff = FALSE
    /\ reqGetBody = FALSE
    /\ reqContent = << >>
    /\ reqBody = << >>
    /\ ctxErr = "none"
    /\ cancelAt = [pc |-> "never", calls |-> 0]
    /\ pc = "idle"
    /\ attempt = 0
    /\ reqToSend = "none"
    /\ cloneBody = << >>
    /\ resp = 0
    /\ err = NilErr
    /\ lastResp = 0
    /\ lastErr = NilErr
    /\ retResp = 0
    /\ retErr = NilErr
    /\ calls = 0
    /\ seen = << >>
    /\ heap = << >>
    /\ nextArgs = << >>
    /\ getBodyCalls = << >>
    /\ run = 1
    /\ script = NoScript
    /\ first = NoFirst
    /\ cur = 0
    /\ other = NoCall

\* b.Next(attempt): lines 47-80. r is the number rand.Int64N draws at line
\* 75, any of 0..n-1 for its argument n.
CallNext ==
    /\ fnArg.kind = "next"
    /\ ~fnRes.done
    /\ \E r \in 0..MaxDuration :
          /\ IF fnArg.backoff.maxJitter > 0 /\ JitterBound(fnArg.backoff) > 0
             THEN r < JitterBound(fnArg.backoff)
             ELSE r = 0
          /\ fnRes' = Result(ExpNext(fnArg.backoff, fnArg.code,
                                     fnArg.build, r))
    /\ UNCHANGED <<fnArg, doVars, replayVars, concVars>>

\* The caller goes on to the next attempt on the same backoff, as the loop
\* of TestExponentialBackoffNext does.
CallNextAgain ==
    /\ fnArg.kind = "next"
    /\ fnRes.done
    /\ ~fnRes.val.panic
    /\ fnArg.code < MaxNextAttempt
    /\ fnArg' = [fnArg EXCEPT !.code = @ + 1, !.prev = fnRes]
    /\ fnRes' = NoRes
    /\ UNCHANGED <<doVars, replayVars, concVars>>

NextCalls ==
    \/ CallNext
    \/ CallNextAgain

BackoffSpec == BackoffInit /\ [][NextCalls]_vars

\* ------------------------------------------- two Do calls, same inputs
\* The outcome of a transport call as the transport returned it (before
\* the executor drained or closed the response).
AsReturned(o) ==
    IF o.resp.nil THEN o
    ELSE [o EXCEPT !.resp.drained = FALSE, !.resp.closed = FALSE]

\* Variant of DoAgain: the attempt counter is kept on the client instead
\* of in the call, so a further Do goes on where the one before stopped.
DoAgainSharedAttempt ==
    /\ pc = "done"
    /\ run = 1
    /\ run' = 2
    /\ first' = [calls |-> calls, resp |-> Deref(retResp), err |-> retErr]
    /\ script' = [outcomes |-> [i \in 1..Len(heap) |-> AsReturned(heap[i])],
                  getBodyFailsAt |->
                      IF retErr = ErrGetBody THEN attempt ELSE 0]
    /\ reqBody' \in {reqBody, reqContent}
    /\ pc' = "loop"
    /\ reqToSend' = "none"
    /\ cloneBody' = << >>
    /\ resp' = 0
    /\ err' = NilErr
    /\ lastResp' = 0
    /\ lastErr' = NilErr
    /\ retResp' = 0
    /\ retErr' = NilErr
    /\ calls' = 0
    /\ seen' = << >>
    /\ heap' = << >>
    /\ nextArgs' = << >>
    /\ getBodyCalls' = << >>
    /\ UNCHANGED <<fnVars, concVars, cfgVars, reqGetBody, reqContent, ctxVars,
                   attempt>>

\* Lines 54-60, a second Do on the same client: its frame is new (attempt,
\* lastResp, lastErr are locals), the client is the one of the first call,
\* the request is the same instance (its body stream as the first call
\* left it) or an identical new one, and the transport stub and GetBody
\* replay what they did in the first call.
DoAgain ==
    /\ pc = "done"
    /\ run = 1
    /\ run' = 2
    /\ first' = [calls |-> calls, resp |-> Deref(retResp), err |-> retErr]
    /\ script' = [outcomes |-> [i \in 1..Len(heap) |-> AsReturned(heap[i])],
                  getBodyFailsAt |->
                      IF retErr = ErrGetBody THEN attempt ELSE 0]
    /\ reqBody' \in {reqBody, reqContent}
    /\ pc' = "loop"
    /\ attempt' = 0
    /\ reqToSend' = "none"
    /\ cloneBody' = << >>
    /\ resp' = 0
    /\ err' = NilErr
    /\ lastResp' = 0
    /\ lastErr' = NilErr
    /\ retResp' = 0
    /\ retErr' = NilErr
    /\ calls' = 0
    /\ seen' = << >>
    /\ heap' = << >>
    /\ nextArgs' = << >>
    /\ getBodyCalls' = << >>
    /\ UNCHANGED <<fnVars, concVars, cfgVars, reqGetBody, reqContent, ctxVars>>

\* PrepareRequest of the second call: GetBody does what it did at the same
\* attempt of the first call.
PrepareReplay ==
    /\ pc = "prepare"
    /\ run = 2
    /\ IF UsesClone(attempt, reqGetBody)
       THEN /\ getBodyCalls' = Append(getBodyCalls, attempt)
            /\ IF attempt # script.getBodyFailsAt
               THEN /\ reqToSend' = "clone"
                    /\ cloneBody' = reqContent
                    /\ pc' = "send"
                    /\ UNCHANGED retVars
               ELSE /\ Return(0, ErrGetBody)
                    /\ UNCHANGED sendVars
       ELSE /\ reqToSend' = "orig"
            /\ pc' = "send"
            /\ UNCHANGED <<cloneBody, retVars, getBodyCalls>>
    /\ UNCHANGED <<fnVars, replayVars, concVars, nextArgs, cfgVars, reqVars,
                   ctxVars, attempt, curVars, lastVars, trVars>>

\* TransportReturn of the second call: the stub answers its i-th call with
\* the i-th outcome of the first call (mockTransport indexes its responses
\* by call count).
TransportReplay ==
    /\ pc = "inflight"
    /\ run = 2
    /\ calls <= Len(script.outcomes)
    /\ heap' = Append(heap, script.outcomes[calls])
    /\ resp' = IF script.outcomes[calls].resp.nil THEN 0 ELSE calls
    /\ err' = script.outcomes[calls].err
    /\ IF reqToSend = "orig"
       THEN /\ \E n \in 0..Len(reqBody) :
                 reqBody' = SubSeq(reqBody, n + 1, Len(reqBody))
            /\ UNCHANGED cloneBody
       ELSE /\ cloneBody' = << >>
            /\ UNCHANGED reqBody
    /\ pc' = "classify"
    /\ UNCHANGED <<fnVars, replayVars, concVars, boVars, cfgVars, reqGetBody, reqContent,
                   ctxVars, attempt, reqToSend, lastVars, retVars, calls,
                   seen>>

\* No cancellation: the context is live at the start and stays so.
ReplayInit == Init /\ ctxErr = "none"

ReplayNext ==
    \/ LoopHead
    \/ run = 1 /\ PrepareRequest
    \/ run = 2 /\ PrepareReplay
    \/ Send
    \/ run = 1 /\ TransportReturn
    \/ run = 2 /\ TransportReplay
    \/ Classify
    \/ Drain
    \/ BackoffNext
    \/ SleepTimer
    \/ DoAgain

ReplaySpec == ReplayInit /\ [][ReplayNext]_vars

\* ------------------------------------- two Do calls at the same time
\* The Do call of the running goroutine.
ThisCall ==
    MkCall(reqGetBody, reqContent, reqBody, ctxErr, cancelAt, pc, attempt,
           reqToSend, cloneBody, resp, err, lastResp, lastErr, retResp,
           retErr, calls, seen, heap, nextArgs, getBodyCalls)

\* Variant of Switch: the attempt counter is kept with the client, not with
\* the call.
SwitchSharedAttempt ==
    /\ cur \in {1, 2}
    /\ cur' = 3 - cur
    /\ other' = ThisCall
    /\ reqGetBody' = other.reqGetBody
    /\ reqContent' = other.reqContent
    /\ reqBody' = other.reqBody
    /\ ctxErr' = other.ctxErr
    /\ cancelAt' = other.cancelAt
    /\ pc' = other.pc
    /\ reqToSend' = other.reqToSend
    /\ cloneBody' = other.cloneBody
    /\ resp' = other.resp
    /\ err' = other.err
    /\ lastResp' = other.lastResp
    /\ lastErr' = other.lastErr
    /\ retResp' = other.retResp
    /\ retErr' = other.retErr
    /\ calls' = other.calls
    /\ seen' = other.seen
    /\ heap' = other.heap
    /\ nextArgs' = other.nextArgs
    /\ getBodyCalls' = other.getBodyCalls
    /\ UNCHANGED <<fnVars, replayVars, cfgVars, attempt>>

\* The scheduler runs the other goroutine. Each goroutine has its own Do
\* frame (lines 55-60: lastResp, lastErr and attempt are locals), its own
\* request and context; the receiver rc (lines 15-19) is the same for both.
Switch ==
    /\ cur \in {1, 2}
    /\ cur' = 3 - cur
    /\ other' = ThisCall
    /\ reqGetBody' = other.reqGetBody
    /\ reqContent' = other.reqContent
    /\ reqBody' = other.reqBody
    /\ ctxErr' = other.ctxErr
    /\ cancelAt' = other.cancelAt
    /\ pc' = other.pc
    /\ attempt' = other.attempt
    /\ reqToSend' = other.reqToSend
    /\ cloneBody' = other.cloneBody
    /\ resp' = other.resp
    /\ err' = other.err
    /\ lastResp' = other.lastResp
    /\ lastErr' = other.lastErr
    /\ retResp' = other.retResp
    /\ retErr' = other.retErr
    /\ calls' = other.calls
    /\ seen' = other.seen
    /\ heap' = other.heap
    /\ nextArgs' = other.nextArgs
    /\ getBodyCalls' = other.getBodyCalls
    /\ UNCHANGED <<fnVars, replayVars, cfgVars>>

\* One client, two goroutines that each call Do with a request and a
\* context of their own.
ConcInit ==
    /\ retryCount \in 0..MaxConcRetries
    /\ hasBackoff \in BOOLEAN
    /\ cur = 1
    /\ \E c \in {"none", "Canceled"} : other = NewCall(FALSE, c)
    /\ reqGetBody = FALSE
    /\ reqContent = << >>
    /\ reqBody = << >>
    /\ ctxErr \in {"none", "Canceled"}
    /\ cancelAt = [pc |-> IF ctxErr = "none" THEN "never" ELSE "before",
                   calls |-> 0]
    /\ pc = "loop"
    /\ attempt = 0
    /\ reqToSend = "none"
    /\ cloneBody = << >>
    /\ resp = 0
    /\ err = NilErr
    /\ lastResp = 0
    /\ lastErr = NilErr
    /\ retResp = 0
    /\ retErr = NilErr
    /\ calls = 0
    /\ seen = << >>
    /\ heap = << >>
    /\ nextArgs = << >>
    /\ getBodyCalls = << >>
    /\ fnArg = NoArg
    /\ fnRes = NoRes
    /\ run = 1
    /\ script = NoScript
    /\ first = NoFirst

\* What the transport answers in the two-goroutine runs: a success, a
\* retry-worthy status, an error that is not retried.
ConcOutcomes ==
    {[resp |-> MkResp(200, TRUE), err |-> NilErr],
     [resp |-> MkResp(503, TRUE), err |-> NilErr],
     [resp |-> NoResp, err |-> ErrUnknown]}

ConcNext ==
    \/ LoopHead
    \/ PrepareRequest
    \/ Send
    \/ TransportReturn /\ heap'[Len(heap')] \in ConcOutcomes
    \/ Classify
    \/ Drain
    \/ BackoffNext
    \/ SleepTimer
    \/ SleepCancelled
    \/ Cancel /\ ctxErr' = "Canceled"
    \/ Switch

ConcSpec == ConcInit /\ [][ConcNext]_vars

\* ======================================================================
\* Properties
\* ======================================================================
\* Vocabulary of the properties, spelled from the specification's words.

\* A transient transport error: connection refused or reset, (unexpected)
\* end of stream, a timeout-flagged network error, a temporary DNS error;
\* never the caller's cancellation or deadline.
TransientError(e) ==
    /\ ~e.nil
    /\ e.ctx = "none"
    /\ \/ e.timeout
       \/ e.errno \in {"ECONNREFUSED", "ECONNRESET"}
       \/ e.eof \in {"EOF", "ErrUnexpectedEOF"}
       \/ e.dns = "temporary"

\* A retry-worthy outcome of one transport call: a transient error, or,
\* with no error, a response whose status is 408, 429 or 5xx.
RetryWorthy(o) ==
    IF ~o.err.nil THEN TransientError(o.err)
    ELSE ~o.resp.nil /\ o.resp.status \in ({408, 429} \cup (500..599))

\* The pointer under which call i's response reaches Do (0 for nil).
RespPtr(i) == IF heap[i].resp.nil THEN 0 ELSE i

\* Call i's response object is as the transport handed it over.
Untouched(i) == ~heap[i].resp.drained /\ ~heap[i].resp.closed

Done == pc = "done"
NoCancellation == ctxErr = "none"

\* C1: within one Do, for a configured retry count N >= 0, the number of
\* transport invocations never exceeds 1 + N, whatever the transport answers
\* and whenever the context is cancelled.
C1_CallsWithinBudget ==
    retryCount >= 0 => calls <= 1 + retryCount

C1_Witness ==
    /\ Done
    /\ retryCount = 2
    /\ calls = 3

\* C2: if the context is already done when Do is called, Do returns the
\* context's error with a nil response and makes no transport call, for
\* every retry count, with or without a backoff.
C2_AlreadyDone ==
    (cancelAt.pc = "before") =>
        /\ calls = 0
        /\ Done => (retResp = 0 /\ retErr = CtxError(ctxErr))

\* C3 as stated: once the context is cancelled, at whatever point, Do
\* issues no further transport call and returns the context's error.
\* (Stated for the Do calls that enter the attempt loop.)
C3_Original ==
    (ctxErr # "none" /\ attempt < maxAttempts) =>
        /\ calls = cancelAt.calls
        /\ Done => (retResp = 0 /\ retErr = CtxError(ctxErr))

\* C3 as amended: in a Do call that runs its attempt loop (1 + retry count
\* is positive), after the cancellation Do starts at most one transport
\* call, and only that of the attempt whose pre-attempt check had already
\* passed (cancellation between the check and the call); and when the
\* cancellation falls where a pre-attempt check or a wait of Do still
\* follows (before the first check, at the loop head, while draining,
\* before or during the wait), Do makes no further call and returns the
\* context's error unchanged with a nil response. A Do call whose loop
\* never runs makes no call and returns a nil response and a nil error,
\* cancelled or not.
C3_Amended ==
    /\ (ctxErr # "none" /\ attempt < maxAttempts) =>
          /\ calls <= cancelAt.calls
                      + (IF cancelAt.pc \in {"prepare", "send"} THEN 1 ELSE 0)
          /\ cancelAt.pc \in {"before", "loop", "drain", "backoff", "sleep"} =>
                /\ calls = cancelAt.calls
                /\ Done => (retResp = 0 /\ retErr = CtxError(ctxErr))
    /\ (ctxErr # "none" /\ maxAttempts <= 0) =>
          /\ calls = 0
          /\ Done => (retResp = 0 /\ retErr = NilErr)

C3_Witness ==
    /\ Done
    /\ cancelAt.pc = "send"
    /\ calls = cancelAt.calls + 1
    /\ cancelAt.calls = 1
    /\ retErr = CtxError(ctxErr)

\* C4: if the context is cancelled while Do waits the backoff delay after
\* its i-th transport call (i <= maxRetries), the (i+1)-th call is never
\* issued and Do returns the cancellation error with a nil response.
C4_CancelDuringWait ==
    (cancelAt.pc = "sleep") =>
        /\ calls = cancelAt.calls
        /\ calls <= retryCount
        /\ Done => (retResp = 0 /\ retErr = CtxError(ctxErr))

C4_Witness ==
    /\ Done
    /\ cancelAt.pc = "sleep"
    /\ cancelAt.calls = 2
    /\ retryCount = 2

\* C5: with maxRetries > 0 and no cancellation, if calls 1..k yield
\* retry-worthy outcomes and the next call yields one that is not, then no
\* further call is made and Do returns that call's response and error
\* unchanged.
C5_StopsAtFirstFinalOutcome ==
    (retryCount > 0 /\ NoCancellation) =>
        \A j \in 1..Len(heap) :
            ( /\ j - 1 <= retryCount
              /\ \A i \in 1..(j - 1) : RetryWorthy(heap[i])
              /\ ~RetryWorthy(heap[j]) ) =>
                /\ calls = j
                /\ pc \in {"classify", "done"}
                /\ Done => /\ retResp = RespPtr(j)
                           /\ retErr = heap[j].err
                           /\ Untouched(j)

C5_Witness ==
    /\ Done
    /\ NoCancellation
    /\ retryCount = 2
    /\ calls = 2
    /\ RetryWorthy(heap[1])
    /\ ~RetryWorthy(heap[2])
    /\ heap[2].resp.status = 400
    /\ retResp = 2

\* C6: with maxRetries = N > 0 and no cancellation, if every transport
\* call yields a retry-worthy outcome, Do makes exactly 1 + N calls and
\* returns the last call's response and error as they are.  With N = MaxInt
\* the sum of line 58 wraps to MinInt and Do makes no call at all.
C6_Original ==
    ( /\ Done
      /\ retryCount > 0
      /\ NoCancellation
      /\ \A i \in 1..Len(heap) : RetryWorthy(heap[i]) ) =>
        /\ calls = 1 + retryCount
        /\ retResp = RespPtr(calls)
        /\ retErr = heap[calls].err
        /\ Untouched(calls)

\* C7: when the configured retry count is <= 0, Do with a live context
\* invokes the transport once and returns that call's outcome as final,
\* with no wait and no second call.
C7_RetriesDisabled ==
    (retryCount <= 0 /\ NoCancellation /\ Done) =>
        /\ calls = 1
        /\ retResp = RespPtr(1)
        /\ retErr = heap[1].err
        /\ Untouched(1)

\* C8: a GetBody failure while Do prepares a retry (attempt > 0) ends Do at
\* once with that error and a nil response: no transport call is made for
\* that attempt (the calls made are those of the attempts before it), even
\* with retry budget left.
C8_GetBodyFailureIsFinal ==
    (Done /\ retErr.src = "GetBody") =>
        /\ retErr = ErrGetBody
        /\ retResp = 0
        /\ attempt > 0
        /\ calls = attempt

C8_Witness ==
    /\ Done
    /\ retErr = ErrGetBody
    /\ retryCount = 2
    /\ attempt = 1
    /\ calls = 1

\* C9: for a request with a replayable body (GetBody set), every transport
\* call of one Do, the first and each retry, finds the same complete body
\* bytes, although the earlier calls consumed the stream they were given.
C9_SameBodyEveryCall ==
    reqGetBody => \A i \in 1..Len(seen) : seen[i] = reqContent

C9_Witness ==
    /\ reqGetBody
    /\ reqContent # << >>
    /\ reqBody = << >>
    /\ Len(seen) = 2
    /\ seen[2] = reqContent

\* C10: the response of every retried attempt that has a body is drained
\* and closed before the next transport call is issued, and none is still
\* open when Do returns (the response Do returns is the caller's).
C10_RetriedBodiesClosed ==
    \A i \in 1..Len(heap) :
        ( /\ ~heap[i].resp.nil
          /\ heap[i].resp.hasBody
          /\ \/ i < calls
             \/ Done /\ retResp # i ) =>
            heap[i].resp.drained /\ heap[i].resp.closed

C10_Witness ==
    /\ Done
    /\ calls = 2
    /\ heap[1].resp.hasBody
    /\ heap[1].resp.closed
    /\ retResp = 2

\* C11 as stated: whenever the context becomes done at any time during a
\* Do call, the error Do returns is the cancellation error (the context's
\* own, or one that carries it). (Stated for the Do calls that enter the
\* attempt loop.)
C11_Original ==
    (Done /\ ctxErr # "none" /\ attempt < maxAttempts) =>
        retErr.ctx # "none"

\* C11 as amended: an outcome that carries the cancellation is never
\* retried, and a Do whose context became done returns the context's own
\* error unless the cancellation fell after the pre-attempt check of an
\* attempt and before that attempt's outcome was handled: then Do may
\* instead return the outcome of that attempt's transport call (the last
\* call made) or, cancelled while preparing a retry, the GetBody error.
C11_Amended ==
    /\ \A i \in 1..Len(heap) : i < calls => heap[i].err.ctx = "none"
    /\ (Done /\ ctxErr # "none" /\ attempt < maxAttempts) =>
          \/ retErr = CtxError(ctxErr) /\ retResp = 0
          \/ /\ cancelAt.pc \in {"prepare", "send", "inflight", "classify"}
             /\ calls >= 1
             /\ retResp = RespPtr(calls)
             /\ retErr = heap[calls].err
          \/ /\ cancelAt.pc = "prepare"
             /\ retResp = 0
             /\ retErr = ErrGetBody

C11_Witness ==
    /\ Done
    /\ cancelAt.pc = "inflight"
    /\ calls = 2
    /\ retResp = 2
    /\ retErr.nil
    /\ heap[2].resp.status = 200

\* C12: every return of Do yields either a non-nil response or a non-nil
\* error, never both and never neither, for every retry count, transport
\* outcome sequence and cancellation timing.
C12_ExactlyOne ==
    Done => ((retResp # 0) # (~retErr.nil))

\* C13: within one Do the transport invocations are strictly sequential:
\* at most one is in flight, exactly while Do waits inside client.Do; and
\* an attempt is started only when every earlier attempt has returned and
\* the wait after it has ended (the attempts before it number `attempt`).
C13_Sequential ==
    /\ calls - Len(heap) \in {0, 1}
    /\ (calls - Len(heap) = 1) <=> (pc = "inflight")
    /\ pc \in {"prepare", "send"} => calls = attempt
    /\ pc \in {"inflight", "classify", "drain", "backoff", "sleep"} =>
          calls = attempt + 1

C13_Witness ==
    /\ pc = "inflight"
    /\ calls = 3
    /\ Len(heap) = 2
    /\ hasBackoff

\* C15: every Do call eventually returns, provided each transport call
\* returns and each backoff timer eventually fires or the context is
\* cancelled; a wait whose timer never fires is ended by cancellation.
C15_Terminates == <>(pc = "done")

C15_Witness ==
    /\ Done
    /\ cancelAt.pc = "sleep"
    /\ retErr = CtxError(ctxErr)
    /\ calls = 2

\* C16: isRetryableStatusCode(code) returns, for every integer code (zero,
\* negative and >= 600 included), true exactly when code is 408, 429 or in
\* 500..599.
C16_StatusClassifier ==
    (fnArg.kind = "status" /\ fnRes.done) =>
        (fnRes.val <=> fnArg.code \in ({408, 429} \cup (500..599)))

C16_Witness ==
    /\ fnArg.kind = "status"
    /\ fnRes.done
    /\ fnArg.code = 600
    /\ ~fnRes.val

\* C17: isRetryableError fails closed: it returns true only for a
\* connection-refused or connection-reset error, an EOF or unexpected EOF,
\* a timeout-flagged network error or a temporary DNS error; it returns
\* false for nil, for context.Canceled and context.DeadlineExceeded, for a
\* DNS error that is neither temporary nor a timeout, and for every error
\* of none of these classes.
C17_ErrorClassifierFailsClosed ==
    (fnArg.kind = "error" /\ fnRes.done) =>
        LET e == fnArg.err
            inClass == \/ e.errno \in {"ECONNREFUSED", "ECONNRESET"}
                       \/ e.eof \in {"EOF", "ErrUnexpectedEOF"}
                       \/ e.timeout
                       \/ e.dns = "temporary"
        IN  /\ fnRes.val => (~e.nil /\ inClass)
            /\ e.nil => ~fnRes.val
            /\ e.ctx \in {"Canceled", "DeadlineExceeded"} => ~fnRes.val
            /\ (e.dns = "permanent" /\ ~e.timeout /\ e.errno = "none"
                  /\ e.eof = "none") => ~fnRes.val
            /\ ~inClass => ~fnRes.val

C17_Witness ==
    /\ fnArg.kind = "error"
    /\ fnRes.done
    /\ ~fnRes.val
    /\ fnArg.err = MkErr("transport", "none", FALSE, "none", "none",
                         "permanent")

\* C18: a context that ends by deadline expiry is handled exactly as one
\* cancelled by hand at the same instant. Whichever way the context ended,
\* at each abort point (before the first attempt, before a later attempt,
\* while the retried response is drained, before or during a wait) the
\* number of transport calls stays what it was at that instant, the
\* response is nil and the error is the context's own; and an outcome by
\* which the transport reports the end of the context, deadline or
\* cancellation alike, is final and never retried.
C18_DeadlineAsCancel ==
    \A kind \in {"Canceled", "DeadlineExceeded"} :
        (ctxErr = kind /\ attempt < maxAttempts) =>
            /\ cancelAt.pc \in {"before", "loop", "drain", "backoff", "sleep"} =>
                  /\ calls = cancelAt.calls
                  /\ Done => /\ retResp = 0
                             /\ retErr.src = "ctx"
                             /\ retErr.ctx = kind
            /\ \A i \in 1..Len(heap) :
                  heap[i].err.ctx # "none" =>
                      /\ i = calls
                      /\ pc \in {"classify", "done"}
                      /\ Done => retErr = heap[i].err

C18_Witness ==
    /\ Done
    /\ ctxErr = "DeadlineExceeded"
    /\ cancelAt.pc = "inflight"
    /\ calls = 2
    /\ retErr = ErrWrappedDeadline
    /\ retryCount = 2

\* C20: with no backoff configured Do never waits between attempts: after
\* a retry-worthy outcome it drains and closes the response (a nil response
\* or a nil body is left alone) and the next attempt follows at once; the
\* retry budget and the pre-attempt cancellation check apply as ever.
C20_NoBackoffNoWait ==
    ~hasBackoff =>
        /\ pc # "sleep"
        /\ retryCount >= 0 => calls <= 1 + retryCount
        /\ \A i \in 1..Len(heap) :
              (i < calls /\ ~heap[i].resp.nil /\ heap[i].resp.hasBody) =>
                  heap[i].resp.drained /\ heap[i].resp.closed
        /\ ( /\ ctxErr # "none"
             /\ attempt < maxAttempts
             /\ cancelAt.pc \in {"before", "loop", "drain", "backoff"} ) =>
              /\ calls = cancelAt.calls
              /\ Done => (retResp = 0 /\ retErr = CtxError(ctxErr))

C20_Witness ==
    /\ ~hasBackoff
    /\ Done
    /\ retryCount = 2
    /\ calls = 3
    /\ heap[1].resp.nil
    /\ ~heap[2].resp.nil /\ ~heap[2].resp.hasBody
    /\ NoCancellation

CallAsAlone(c) ==
    /\ c.calls <= 1 + retryCount
    /\ c.pc \in {"loop", "prepare", "send"} => c.calls = c.attempt
    /\ c.pc \in {"inflight", "classify", "drain", "backoff", "sleep"} =>
          c.calls = c.attempt + 1
    /\ c.pc = "sleep" => (hasBackoff /\ c.calls <= retryCount)
    /\ \A i \in 1..Len(c.heap) : i < c.calls => RetryWorthy(c.heap[i])
    /\ (c.ctxErr = "none" /\ c.pc = "done") =>
          /\ c.calls >= 1
          /\ c.retResp = (IF c.heap[c.calls].resp.nil THEN 0 ELSE c.calls)
          /\ c.retErr = c.heap[c.calls].err
          /\ ~c.heap[c.calls].resp.drained /\ ~c.heap[c.calls].resp.closed
          /\ ~RetryWorthy(c.heap[c.calls]) \/ c.calls = 1 + retryCount
    /\ ( /\ c.ctxErr # "none"
         /\ c.cancelAt.pc \in {"before", "loop", "drain", "backoff", "sleep"} ) =>
          /\ c.calls = c.cancelAt.calls
          /\ c.pc = "done" => (c.retResp = 0 /\ c.retErr = CtxError(c.ctxErr))

\* C14: two Do calls that run at the same time on one client are
\* independent: no step of either writes the client's configuration, and
\* under every interleaving each call, with its own attempt counter and
\* last outcome, makes the transport calls, waits and returns the outcome
\* it would alone; a call whose own context is live is not aborted by the
\* cancellation of the other's.
C14_Independent ==
    /\ [](CallAsAlone(ThisCall) /\ CallAsAlone(other))
    /\ [][retryCount' = retryCount /\ hasBackoff' = hasBackoff]_vars

C14_Witness ==
    /\ cur = 2
    /\ Done
    /\ NoCancellation
    /\ calls = 3
    /\ retErr.nil
    /\ heap[3].resp.status = 200
    /\ other.pc = "sleep"
    /\ other.calls = 1
    /\ other.cancelAt.pc = "sleep"

\* The state of the executor's state machine a Do call is in. Idle: Do
\* entered, nothing done yet. Attempting: from the pre-attempt check of an
\* attempt to the decision on its outcome. Retrying: draining, asking the
\* backoff, waiting. After the return: Cancelled when Do returned its
\* context's error; Exhausted when it returned a retry-worthy transport
\* outcome; Succeeded when it returned any other final result (an outcome
\* that is not retry-worthy, a GetBody failure); NoOutcome when it returned
\* without a transport outcome and without an error.
Phase ==
    IF pc = "done"
    THEN IF retErr.src = "ctx" THEN "Cancelled"
         ELSE IF calls = 0 THEN "NoOutcome"
         ELSE IF retErr # ErrGetBody /\ RetryWorthy(heap[calls])
              THEN "Exhausted"
         ELSE "Succeeded"
    ELSE IF pc = "loop" /\ attempt = 0 THEN "Idle"
    ELSE IF pc \in {"drain", "backoff", "sleep"} THEN "Retrying"
    ELSE "Attempting"

\* C21: a Do call moves only along Idle -> Attempting -> {Succeeded |
\* Retrying -> Attempting | Exhausted | Cancelled}: Retrying is entered only
\* from Attempting on a retry-worthy outcome with budget left, Exhausted
\* only from Attempting on a retry-worthy outcome of the last allowed
\* attempt, Cancelled only when the context is done, and the three final
\* states are terminal.
C21_StateMachine ==
    [][ /\ Phase' \in {"Idle", "Attempting", "Retrying", "Succeeded",
                       "Exhausted", "Cancelled"}
        /\ Phase' = "Idle" => Phase = "Idle"
        /\ (Phase' = "Attempting" /\ Phase # "Attempting") =>
              Phase \in {"Idle", "Retrying"}
        /\ (Phase' = "Retrying" /\ Phase # "Retrying") =>
              /\ Phase = "Attempting"
              /\ RetryWorthy(heap[calls])
              /\ calls < 1 + retryCount
        /\ (Phase' = "Succeeded" /\ Phase # "Succeeded") =>
              Phase = "Attempting"
        /\ (Phase' = "Exhausted" /\ Phase # "Exhausted") =>
              /\ Phase = "Attempting"
              /\ RetryWorthy(heap[calls])
              /\ calls = 1 + retryCount
        /\ (Phase' = "Cancelled" /\ Phase # "Cancelled") => ctxErr # "none"
        /\ Phase \in {"Succeeded", "Exhausted", "Cancelled"} =>
              (Phase' = Phase /\ calls' = calls /\ pc' = pc)
      ]_vars

\* C30 as stated, for its last part: a Do with a backoff that ends without
\* cancellation has made exactly (transport calls - 1) waits. (Stated for
\* the Do calls that enter the attempt loop.)
C30_Original ==
    (Done /\ hasBackoff /\ NoCancellation /\ attempt < maxAttempts) =>
        Len(nextArgs) = calls - 1

\* C30 as amended: with a backoff, Next is invoked once per gap between
\* two attempts, with the zero-based index of the attempt that just
\* failed, so that the arguments seen over one Do are 0, 1, 2, ... in
\* order; it is invoked only after a retry-worthy outcome and never after
\* the last allowed attempt; a Do that ends without cancellation has made
\* (transport calls - 1) waits, unless it ends on a GetBody failure, which
\* comes after the wait: then it has made as many waits as transport calls
\* (and a Do that made no transport call has made no wait). Without a
\* backoff Next is never invoked.
C30_Amended ==
    /\ ~hasBackoff => nextArgs = << >>
    /\ nextArgs = [i \in 1..Len(nextArgs) |-> i - 1]
    /\ \A i \in 1..Len(nextArgs) : i <= Len(heap) /\ RetryWorthy(heap[i])
    /\ retryCount >= 0 => Len(nextArgs) <= retryCount
    /\ hasBackoff =>
          /\ pc \in {"inflight", "classify", "drain", "backoff"} =>
                Len(nextArgs) = calls - 1
          /\ pc \in {"sleep", "loop", "prepare", "send"} =>
                Len(nextArgs) = calls
          /\ (Done /\ NoCancellation) =>
                Len(nextArgs) = IF retErr = ErrGetBody \/ calls = 0
                                THEN calls
                                ELSE calls - 1

C30_Witness ==
    /\ Done
    /\ hasBackoff
    /\ NoCancellation
    /\ retryCount = 2
    /\ calls = 3
    /\ nextArgs = <<0, 1>>

\* a is what is left of b after some of it was read.
IsSuffix(a, b) ==
    /\ Len(a) <= Len(b)
    /\ a = SubSeq(b, Len(b) - Len(a) + 1, Len(b))

\* C27: the request handed to the transport is the caller's original
\* instance on attempt 0; on a later attempt it is a clone with a body
\* freshly obtained from GetBody when GetBody is set, and the very same
\* original instance, with its body stream as the earlier attempts left it,
\* when GetBody is not set.
C27_RequestPerAttempt ==
    /\ pc \in {"send", "inflight", "classify"} =>
          reqToSend = IF attempt > 0 /\ reqGetBody THEN "clone" ELSE "orig"
    /\ (pc = "send" /\ reqToSend = "clone") => cloneBody = reqContent
    /\ \A i \in 1..Len(seen) :
          IF i = 1 THEN seen[i] = reqContent
          ELSE IF reqGetBody THEN seen[i] = reqContent
          ELSE IsSuffix(seen[i], seen[i - 1])
    /\ IsSuffix(reqBody, reqContent)

C27_Witness ==
    /\ pc = "inflight"
    /\ calls = 2
    /\ reqGetBody
    /\ reqToSend = "clone"
    /\ Len(reqContent) = 1
    /\ seen[2] = reqContent
    /\ reqBody = << >>

\* C28: whether an attempt is retried (retries being enabled) is decided
\* by the error classifier alone when the transport returned a non-nil
\* error, whatever the status of a response returned with it; by the status
\* classifier when the error is nil and there is a response; and it is not
\* retried when both are nil.
C28_WhoDecides ==
    (fnArg.kind = "shouldRetry" /\ fnRes.done /\ fnArg.count > 0) =>
        (fnRes.val <=>
            IF ~fnArg.err.nil THEN TransientError(fnArg.err)
            ELSE IF ~fnArg.resp.nil
                 THEN fnArg.resp.status \in ({408, 429} \cup (500..599))
            ELSE FALSE)

C28_Witness ==
    /\ fnArg.kind = "shouldRetry"
    /\ fnRes.done
    /\ fnArg.count = 1
    /\ fnArg.err = ErrUnknown
    /\ ~fnArg.resp.nil
    /\ fnArg.resp.status = 503
    /\ ~fnRes.val

\* C29: in isRetryableError the cancellation test comes before every
\* retryable class: an error that is or wraps context.Canceled or
\* context.DeadlineExceeded is not retryable, even when it is also a
\* timeout or wraps connection-refused, connection-reset or an EOF; so the
\* transport call that answers with such an error is the last of its Do,
\* which returns that call's error.
C29_CancellationFirst ==
    /\ \A i \in 1..Len(heap) :
          heap[i].err.ctx # "none" =>
              /\ ~isRetryableError(heap[i].err)
              /\ ~shouldRetry(retryCount, heap[i].err, heap[i].resp)
              /\ i = calls
              /\ pc \in {"classify", "done"}
              /\ Done => (retErr = heap[i].err /\ retResp = RespPtr(i))

C29_Witness ==
    /\ Done
    /\ retryCount = 2
    /\ calls = 2
    /\ RetryWorthy(heap[1])
    /\ heap[2].err = ErrCancelRefused
    /\ heap[2].err.errno = "ECONNREFUSED"
    /\ retErr = ErrCancelRefused
    /\ retResp = 0

\* ------------------------------------------------- backoff properties
\* A call of Next has returned a duration.
NextReturned == fnArg.kind = "next" /\ fnRes.done /\ ~fnRes.val.panic
NoJitter == fnArg.backoff.maxJitter = 0
Min(a, b) == IF a < b THEN a ELSE b

\* C22: for attempt >= 0 and non-negative parameters, what Next returns is
\* non-negative and at most maxTimeout + maxJitter, also when the base
\* delay plus the jitter, or the exponentiation, leaves the range of the
\* duration type.
C22_WithinBounds ==
    (NextReturned /\ fnArg.code >= 0) =>
        /\ fnRes.val.val >= 0
        /\ fnRes.val.val <= fnArg.backoff.maxTimeout + fnArg.backoff.maxJitter

\* C23: with maxJitter = 0, Next(attempt) is non-decreasing in attempt
\* until it reaches maxTimeout and is maxTimeout for every larger attempt,
\* for every non-negative factor and durations.
C23_Original ==
    (NextReturned /\ NoJitter /\ fnArg.prev.done) =>
        /\ fnArg.prev.val.val <= fnRes.val.val
        /\ fnArg.prev.val.val = fnArg.backoff.maxTimeout =>
              fnRes.val.val = fnArg.backoff.maxTimeout

\* C23 (amended): with maxJitter = 0 and exponentFactor >= 1, Next(attempt)
\* is non-decreasing in attempt, never above the value the clamp yields
\* (float64(maxTimeout) converted back to a duration), and constant once
\* it has reached that value or maxTimeout; with exponentFactor < 1 it is
\* non-increasing in attempt.
C23_Amended ==
    (NextReturned /\ NoJitter /\ fnArg.prev.done) =>
        IF fnArg.backoff.exponentFactor.k >= FloatUnit
        THEN /\ fnArg.prev.val.val <= fnRes.val.val
             /\ fnRes.val.val <= CapValue(fnArg.backoff, fnArg.build)
             /\ fnArg.prev.val.val = CapValue(fnArg.backoff, fnArg.build) =>
                   fnRes.val.val = fnArg.prev.val.val
             /\ fnArg.prev.val.val = fnArg.backoff.maxTimeout =>
                   fnRes.val.val = fnArg.backoff.maxTimeout
        ELSE fnRes.val.val <= fnArg.prev.val.val

C23_Witness ==
    /\ NextReturned
    /\ NoJitter
    /\ fnArg.backoff.exponentFactor = Fin(2 * FloatUnit)
    /\ fnArg.backoff.initialTimeout = 1
    /\ fnArg.backoff.maxTimeout = Pow2(MantissaBits + 1)
    /\ fnArg.code = MaxNextAttempt
    /\ fnArg.prev.done
    /\ fnArg.prev.val.val = fnArg.backoff.maxTimeout
    /\ fnRes.val.val = fnArg.backoff.maxTimeout

\* C24: when initialTimeout * exponentFactor^attempt is not finite or is
\* above maxTimeout, or when its conversion to a duration overflows to a
\* negative value, the base delay Next returns is exactly maxTimeout.
C24_ClampIsMaxTimeout ==
    LET raw == RawDelay(fnArg.backoff, fnArg.code)
    IN  (/\ NextReturned
         /\ NoJitter
         /\ \/ raw.cls # "fin"
            \/ raw.k > fnArg.backoff.maxTimeout * FloatUnit
            \/ DurationOfFloat(raw, fnArg.build) < 0) =>
            fnRes.val.val = fnArg.backoff.maxTimeout

\* C25: with initialTimeout = 0, Next returns the jitter only, for every
\* attempt and every factor, and exactly 0 when maxJitter = 0 too.
C25_ZeroInitial ==
    (NextReturned /\ fnArg.backoff.initialTimeout = 0) =>
        /\ 0 <= fnRes.val.val
        /\ fnRes.val.val <= fnArg.backoff.maxJitter

\* C26: for a negative attempt Next behaves as Next(0): without jitter it
\* returns min(initialTimeout, maxTimeout), with jitter a value of the
\* range of Next(0).
C26_NegativeAsZero ==
    (NextReturned /\ fnArg.code < 0) =>
        /\ \E r \in 0..MaxDuration :
              fnRes.val = ExpNext(fnArg.backoff, 0, fnArg.build, r)
        /\ NoJitter =>
              fnRes.val.val = Min(fnArg.backoff.initialTimeout,
                                  fnArg.backoff.maxTimeout)

\* ------------------------------------- what Do does to the responses
\* The executor has read call i's response body to its end or closed it.
Touched(i) == heap[i].resp.drained \/ heap[i].resp.closed

\* C31: a response Do returns has not been drained or closed by Do; the
\* drain-and-close step is applied only to the response of an attempt that
\* is followed by a wait (a retry-worthy outcome with budget left), never
\* to the response of the final attempt.
C31_ReturnedUntouched ==
    /\ (Done /\ retResp # 0) => Untouched(retResp)
    /\ \A i \in 1..Len(heap) :
          Touched(i) =>
              /\ RetryWorthy(heap[i])
              /\ i <= retryCount
              /\ heap[i].resp.hasBody
              /\ retResp # i
              /\ i < calls \/ pc \in {"backoff", "sleep", "loop", "prepare",
                                      "send", "done"}

C31_Witness ==
    /\ Done
    /\ retryCount = 1
    /\ calls = 2
    /\ Touched(1)
    /\ heap[2].err.nil
    /\ heap[2].resp.status = 503
    /\ heap[2].resp.hasBody
    /\ retResp = 2
    /\ Untouched(2)

\* C32: the response and the error Do returns come from one and the same
\* transport call, the last one of that Do: a returned response is the
\* last call's, with the last call's error beside it; a returned transport
\* error is the last call's, with the last call's response beside it; Do
\* never pairs the response of one attempt with the error of another and
\* never returns the outcome of an earlier attempt.
C32_SameLastCall ==
    Done =>
        /\ retResp # 0 =>
              /\ retResp = calls
              /\ retErr = heap[calls].err
        /\ retErr.src = "transport" =>
              /\ calls >= 1
              /\ retErr = heap[calls].err
              /\ retResp = RespPtr(calls)
        /\ \A i \in 1..(calls - 1) : retResp # i

C32_Witness ==
    /\ Done
    /\ retryCount = 1
    /\ calls = 2
    /\ heap[1].err = ErrReset
    /\ heap[1].resp.nil
    /\ heap[2].err.nil
    /\ heap[2].resp.status = 503
    /\ retResp = 2
    /\ retErr.nil

\* Do ended on one of its own checks: the pre-attempt context check or the
\* cancelled wait (the context's own error), or a GetBody failure.
EndedByOwnCheck ==
    /\ Done
    /\ retErr.src \in {"ctx", "GetBody"}

\* C33: when Do ends because its own checks saw the cancellation, or
\* because GetBody failed, it returns a nil response, and every response
\* body it received in that Do has been drained and closed.
C33_NothingLeftOpen ==
    EndedByOwnCheck =>
        /\ retResp = 0
        /\ \A i \in 1..Len(heap) :
              (~heap[i].resp.nil /\ heap[i].resp.hasBody) =>
                  heap[i].resp.drained /\ heap[i].resp.closed

C33_Witness ==
    /\ Done
    /\ retErr = ErrGetBody
    /\ retResp = 0
    /\ calls = 2
    /\ heap[1].resp.hasBody
    /\ heap[2].resp.hasBody
    /\ heap[2].resp.closed

\* ------------------------------------------- the caller's request
\* The attempts 1..n, in order.
RetryAttempts(n) == [i \in 1..n |-> i]
Max(a, b) == IF a > b THEN a ELSE b

\* C34: Do does not modify the caller's request: its GetBody and its body
\* bytes stay as they are and its body stream moves only by what the
\* transport reads from the original instance; GetBody is not invoked for
\* attempt 0, is invoked exactly once for every retry attempt that is
\* started (its pre-attempt check passed), and is not invoked for an
\* attempt that is abandoned because of cancellation.
C34_RequestReadOnly ==
    /\ [][/\ reqGetBody' = reqGetBody
          /\ reqContent' = reqContent
          /\ reqBody' # reqBody => (pc = "inflight" /\ reqToSend = "orig")
          /\ getBodyCalls' # getBodyCalls =>
                /\ pc = "prepare"
                /\ attempt > 0
                /\ getBodyCalls' = Append(getBodyCalls, attempt)]_vars
    /\ [](/\ ~reqGetBody => getBodyCalls = << >>
          /\ reqGetBody =>
                getBodyCalls = RetryAttempts(
                    IF pc \in {"loop", "prepare"} THEN Max(attempt - 1, 0)
                    ELSE IF Done /\ EndedByOwnCheck /\ retErr.src = "ctx"
                         THEN Max(calls - 1, 0)
                    ELSE attempt))

C34_Witness ==
    /\ Done
    /\ reqGetBody
    /\ retryCount = 2
    /\ retErr = CtxError(ctxErr)
    /\ cancelAt.pc = "sleep"
    /\ calls = 2
    /\ getBodyCalls = <<1>>
    /\ reqBody = << >>
    /\ reqContent # << >>

\* ------------------------------------------------ order of a retry step
\* C35: if the context is already done when the wait after a retried
\* attempt begins, then whichever branch of sleep's select is taken (the
\* timer may be ready as well), and also without a backoff, Do makes no
\* further transport call and returns the context's error with a nil
\* response: the pre-attempt check tests the context again.
C35_DoneBeforeWait ==
    /\ [][(ctxErr # "none" /\ pc \in {"backoff", "sleep"}) =>
              /\ pc' \in {"sleep", "loop", "done"}
              /\ calls' = calls
              /\ pc' = "done" =>
                    (retResp' = 0 /\ retErr' = CtxError(ctxErr))]_vars
    /\ [][(ctxErr # "none" /\ pc = "loop" /\ attempt > 0) =>
              /\ pc' = "done"
              /\ calls' = calls
              /\ retResp' = 0
              /\ retErr' = CtxError(ctxErr)]_vars
    /\ [](cancelAt.pc \in {"inflight", "classify", "drain", "backoff"} =>
              /\ calls = cancelAt.calls
              /\ (Done /\ RetryWorthy(heap[calls]) /\ calls <= retryCount) =>
                    (retResp = 0 /\ retErr = CtxError(ctxErr)))

\* The timer branch was taken with the context done, and the pre-attempt
\* check ended Do.
C35_Witness ==
    /\ Done
    /\ hasBackoff
    /\ cancelAt.pc = "inflight"
    /\ retryCount = 2
    /\ calls = 1
    /\ attempt = 1
    /\ RetryWorthy(heap[1])
    /\ retResp = 0
    /\ retErr = CtxError(ctxErr)

\* No response body received so far is still open.
NoOpenBody ==
    \A i \in 1..Len(heap) :
        (~heap[i].resp.nil /\ heap[i].resp.hasBody) => heap[i].resp.closed

\* This step brings Do to the position p.
Enters(p) == pc' = p /\ pc # p

\* C36: a retry step runs in a fixed order: the failed attempt's response
\* body is drained and closed, then the backoff delay is computed, then
\* waited (no response body is open during the wait); GetBody is invoked
\* and the next transport call issued only after the wait has ended and
\* the pre-attempt context check has passed.
C36_RetryStepOrder ==
    /\ [](/\ pc \in {"backoff", "sleep"} => NoOpenBody
          /\ pc \in {"drain", "backoff"} =>
                (Len(nextArgs) < calls /\ Len(getBodyCalls) < calls)
          /\ pc = "sleep" =>
                (Len(nextArgs) = calls /\ Len(getBodyCalls) < calls))
    /\ [][/\ Enters("drain") => pc = "classify"
          /\ Enters("backoff") => pc = "drain"
          /\ nextArgs' # nextArgs => (pc = "backoff" /\ pc' = "sleep")
          /\ Enters("sleep") => (pc = "backoff" /\ nextArgs' # nextArgs)
          /\ (Enters("loop") /\ attempt' > 0) =>
                pc = (IF hasBackoff THEN "sleep" ELSE "backoff")
          /\ Enters("prepare") => (pc = "loop" /\ ctxErr = "none")
          /\ getBodyCalls' # getBodyCalls => pc = "prepare"
          /\ Enters("send") => pc = "prepare"
          /\ calls' # calls => (pc = "send" /\ calls' = calls + 1)]_vars

C36_Witness ==
    /\ pc = "inflight"
    /\ hasBackoff
    /\ reqGetBody
    /\ calls = 2
    /\ heap[1].resp.hasBody
    /\ heap[1].resp.closed
    /\ nextArgs = <<0>>
    /\ getBodyCalls = <<1>>

\* C37: Next is total: for every attempt, every non-negative
\* initialTimeout, maxTimeout and maxJitter up to the largest duration and
\* every finite non-negative factor, it returns (it does not panic) and
\* what it returns is a non-negative duration.
C37_Total ==
    (fnArg.kind = "next" /\ fnRes.done) =>
        /\ ~fnRes.val.panic
        /\ fnRes.val.val >= 0

====
